---- MODULE Spec2Model ----
(***************************************************************************)
(* Model of fetch_cards.py: the card-list pipeline                         *)
(*   fetch_commander_only_cards -> fetch_high_inclusion_cards ->           *)
(*   merge_card_lists -> json.dump                                         *)
(* and of its pure helpers sanitize_card_name and get_edhrec_inclusion.    *)
(*                                                                         *)
(* Representation.                                                         *)
(*   - a Python str is a sequence of one-character strings; card names     *)
(*     are compared as Python compares str, by code point (Ord).           *)
(*   - Optional[x] is a set with at most one element: None is {}.          *)
(*   - a percentage is an integer count of thousandths of a percent        *)
(*     (3.5% is 3500); "{:.2f}" formatting rounds it to hundredths.        *)
(*   - a dict key that may be absent ("edhrec_rank", "inclusion_percent")  *)
(*     is a field holding {} (absent) or {v} (present with value v).       *)
(***************************************************************************)
EXTENDS Integers, Sequences, FiniteSets

VARIABLES
    entry,              \* the function the run entered by
    pc,                 \* position in the code
    url,                \* local url: {} is None, {p} is the address of page p
    page,               \* local page counter
    data,               \* response.json() of the current catalog page
    idx,                \* position of the inner for loop in data["data"]
    cards,              \* local cards list of the running fetch function
    cards_checked,      \* local cards_checked
    threshold_percent,  \* parameter of fetch_high_inclusion_cards
    commander_only,     \* main's / merge_card_lists' first list
    high_inclusion,     \* main's / merge_card_lists' second list
    card_dict,          \* merge_card_lists' dict, in insertion order
    k,                  \* position of merge_card_lists' current for loop
    merged_cards,       \* merge_card_lists' return value
    output_file,        \* content of boomer_card_list.json: {} before the dump
    card_name,          \* sanitize_card_name's argument
    sanitized,          \* sanitize_card_name's local
    log                 \* history: requests issued and sleeps taken, in order

vars == <<entry, pc, url, page, data, idx, cards, cards_checked,
          threshold_percent, commander_only, high_inclusion, card_dict, k,
          merged_cards, output_file, card_name, sanitized, log>>

fetchVars == <<url, page, data, idx, cards, cards_checked, threshold_percent>>
mergeVars == <<card_dict, k, merged_cards>>
sanVars == <<card_name, sanitized>>

None == {}
Some(x) == {x}
Get(o) == CHOOSE x \in o : TRUE

(***************************************************************************)
(* Bounds of the model.                                                    *)
(***************************************************************************)
MaxNameLen == 4         \* longest name given to sanitize_card_name
MaxPages == 2           \* catalog pages a search serves at most
MaxPageLen == 2         \* cards on one page when the scan is entered alone
MaxRunPageLen == 1      \* cards on one page of either search in a whole run
MaxRecords == 3         \* records in both arguments of merge_card_lists

\* all sequences over S of length at most n
SeqsUpTo(S, n) == UNION {[1..m -> S] : m \in 0..n}

(***************************************************************************)
(* Characters and strings.                                                 *)
(***************************************************************************)
Whitespace == {" ", "\t"}
LowerAlnum == {"u", "r", "a", "b", "1"}
Alphabet == {"U", "r", "1", " ", "\t", "-", ",", "'"}

\* str.lower(), one character
LowerChar(c) ==
    CASE c = "U" -> "u"
      [] c = "B" -> "b"
      [] OTHER -> c

\* ord(), for the characters in use
Ord(c) ==
    CASE c = "\t" -> 9
      [] c = " " -> 32
      [] c = "'" -> 39
      [] c = "," -> 44
      [] c = "-" -> 45
      [] c = "1" -> 49
      [] c = "B" -> 66
      [] c = "U" -> 85
      [] c = "a" -> 97
      [] c = "b" -> 98
      [] c = "r" -> 114
      [] c = "u" -> 117

\* Python's str < str: the first differing code point decides, a proper
\* prefix is smaller.
StrLess(s, t) ==
    \E i \in 1..(Len(t)) :
        /\ \A j \in 1..(i - 1) : j <= Len(s) /\ s[j] = t[j]
        /\ \/ i = Len(s) + 1
           \/ i <= Len(s) /\ Ord(s[i]) < Ord(t[i])

\* str.lower()
Lower(s) == [i \in 1..Len(s) |-> LowerChar(s[i])]

\* re.sub(r'[^a-z0-9\s-]', '', s)
InSlugClass(c) == c \in LowerAlnum \cup Whitespace \cup {"-"}
RemoveDisallowed(s) == SelectSeq(s, InSlugClass)

\* re.sub(cls+, '-', s): every maximal run of characters of cls becomes "-"
SubRuns(s, cls) ==
    LET F[i \in 0..Len(s)] ==
            IF i = 0 THEN <<>>
            ELSE IF s[i] \in cls
                 THEN IF i > 1 /\ s[i - 1] \in cls
                      THEN F[i - 1]
                      ELSE Append(F[i - 1], "-")
                 ELSE Append(F[i - 1], s[i])
    IN F[Len(s)]

\* variant: only leading hyphens are removed
StripHyphens_Leading(s) ==
    LET keep == {i \in 1..Len(s) : s[i] # "-"}
    IN IF keep = {} THEN <<>>
       ELSE SubSeq(s, CHOOSE i \in keep : \A j \in keep : i <= j, Len(s))

\* str.strip('-')
StripHyphens(s) ==
    LET keep == {i \in 1..Len(s) : s[i] # "-"}
    IN IF keep = {} THEN <<>>
       ELSE SubSeq(s, CHOOSE i \in keep : \A j \in keep : i <= j,
                      CHOOSE i \in keep : \A j \in keep : i >= j)

sanitize_card_name(name) ==
    StripHyphens(SubRuns(SubRuns(RemoveDisallowed(Lower(name)), Whitespace), {"-"}))

(***************************************************************************)
(* Records, the two external services and get_edhrec_inclusion.            *)
(***************************************************************************)
MergeNames == {<<"B">>, <<"a">>, <<"a", "B">>}
OracleText == "rules"
Percents == {2000, 3500, 7506}

\* "{:.2f}".format(p): thousandths rounded to hundredths
Fmt2(p) == (p + 5) \div 10

CommanderReason == <<"commander_only">>
HighReason(p) == <<"high_inclusion: ", Fmt2(p), "%">>

\* the catalogs: the name of the i-th card the commander-only search
\* serves and of the card of popularity rank r
CommanderNameAt(i) == IF i % 2 = 1 THEN <<"B">> ELSE <<"a">>
PopularNameAt(r) == IF r % 2 = 1 THEN <<"B">> ELSE <<"a", ",", " ", "B">>

\* what the statistics API answers when it has no percentage for the card
\* of rank r: requests.get raises, the status is not 200, or the pattern
\* r'(\d+\.?\d*)%' matches nothing in the label (label = {})
NoDataResponse(r) ==
    CASE r % 3 = 1 -> [raises |-> TRUE, status_code |-> 0, label |-> None]
      [] r % 3 = 2 -> [raises |-> FALSE, status_code |-> 404, label |-> None]
      [] OTHER -> [raises |-> FALSE, status_code |-> 200, label |-> None]

\* what it answers for a card of rank r with outcome o: no data (o = {}),
\* or a label in which the pattern matches the number p (o = {p})
StatsResponse(r, o) ==
    IF o = None THEN NoDataResponse(r)
    ELSE [raises |-> FALSE, status_code |-> 200, label |-> o]

\* the outcomes drawn from: all of them when the scan is entered alone; no
\* data, below and above main's 3.5 in a whole run
Outcomes(entered) ==
    IF entered = "main"
    THEN {None, Some(2000), Some(7506)}
    ELSE {None} \cup {Some(p) : p \in Percents}

get_edhrec_inclusion(resp) ==
    IF resp.raises THEN None
    ELSE IF resp.status_code # 200 THEN None
    ELSE resp.label

\* a catalog page answered with 200: the cards carry the answer the
\* statistics API holds for them; ranks continue from the cards served before
CatalogCard(rank, outcome) ==
    [name |-> PopularNameAt(rank), oracle_text |-> OracleText, edhrec_rank |-> rank,
     stats |-> StatsResponse(rank, outcome)]

PageLen(entered) == IF entered = "main" THEN MaxRunPageLen ELSE MaxPageLen

PopularPages(entered, rankBase, pageNo) ==
    {[status_code |-> 200,
      cards |-> [i \in 1..Len(os) |-> CatalogCard(rankBase + i, os[i])],
      has_more |-> more,
      next_page |-> IF more THEN Some(pageNo + 1) ELSE None] :
        <<os, more>> \in SeqsUpTo(Outcomes(entered), PageLen(entered))
                         \X {m \in BOOLEAN : m => pageNo < MaxPages}}

CommanderPages(served, pageNo) ==
    {[status_code |-> 200,
      cards |-> [i \in 1..n |->
                    [name |-> CommanderNameAt(served + i), oracle_text |-> OracleText]],
      has_more |-> more,
      next_page |-> IF more THEN Some(pageNo + 1) ELSE None] :
        <<n, more>> \in (0..MaxRunPageLen) \X {m \in BOOLEAN : m => pageNo < MaxPages}}

ErrorPage == [status_code |-> 500, cards |-> <<>>, has_more |-> FALSE, next_page |-> None]

(***************************************************************************)
(* merge_card_lists (lines 175-225): the dict is a sequence of merged      *)
(* records in insertion order, as a Python dict keeps them.                *)
(***************************************************************************)
InDict(d, name) == \E i \in 1..Len(d) : d[i].name = name
DictIndex(d, name) == CHOOSE i \in 1..Len(d) : d[i].name = name
InList(l, x) == \E i \in 1..Len(l) : l[i] = x

\* variant: the append without the membership test
AddReason_Always(reasons, reason) == Append(reasons, reason)

\* lines 192-193 and 208-209
AddReason(reasons, reason) ==
    IF InList(reasons, reason) THEN reasons ELSE Append(reasons, reason)

\* body of the first loop, lines 184-193
MergeFirstStep(d, card) ==
    IF ~InDict(d, card.name)
    THEN Append(d, [name |-> card.name, oracle_text |-> card.oracle_text,
                    reasons |-> <<card.reason>>,
                    edhrec_rank |-> None, inclusion_percent |-> None])
    ELSE LET i == DictIndex(d, card.name)
         IN [d EXCEPT ![i].reasons = AddReason(@, card.reason)]

\* variant: an existing record only has its rank and inclusion overwritten
MergeSecondStep_NoReason(d, card) ==
    IF ~InDict(d, card.name)
    THEN Append(d, [name |-> card.name, oracle_text |-> card.oracle_text,
                    reasons |-> <<card.reason>>,
                    edhrec_rank |-> card.edhrec_rank,
                    inclusion_percent |-> card.inclusion_percent])
    ELSE LET i == DictIndex(d, card.name)
         IN [d EXCEPT ![i].edhrec_rank =
                          IF card.edhrec_rank # None THEN card.edhrec_rank ELSE @,
                      ![i].inclusion_percent =
                          IF card.inclusion_percent # None
                          THEN card.inclusion_percent ELSE @]

\* body of the second loop, lines 196-213
MergeSecondStep(d, card) ==
    IF ~InDict(d, card.name)
    THEN Append(d, [name |-> card.name, oracle_text |-> card.oracle_text,
                    reasons |-> <<card.reason>>,
                    edhrec_rank |-> card.edhrec_rank,
                    inclusion_percent |-> card.inclusion_percent])
    ELSE LET i == DictIndex(d, card.name)
         IN [d EXCEPT ![i].reasons = AddReason(@, card.reason),
                      ![i].edhrec_rank =
                          IF card.edhrec_rank # None THEN card.edhrec_rank ELSE @,
                      ![i].inclusion_percent =
                          IF card.inclusion_percent # None
                          THEN card.inclusion_percent ELSE @]

\* variant: the values in insertion order, not sorted
SortByName_Unsorted(l) == l

\* list.sort(key=lambda x: x["name"]), line 218: a stable sort
SortByName(l) ==
    LET Insert(s, x) ==
            LET p == Cardinality({i \in 1..Len(s) : ~StrLess(x.name, s[i].name)})
            IN SubSeq(s, 1, p) \o <<x>> \o SubSeq(s, p + 1, Len(s))
        F[i \in 0..Len(l)] == IF i = 0 THEN <<>> ELSE Insert(F[i - 1], l[i])
    IN F[Len(l)]

\* the whole function
merge_card_lists(a, b) ==
    LET First[i \in 0..Len(a)] ==
            IF i = 0 THEN <<>> ELSE MergeFirstStep(First[i - 1], a[i])
        Second[i \in 0..Len(b)] ==
            IF i = 0 THEN First[Len(a)] ELSE MergeSecondStep(Second[i - 1], b[i])
    IN SortByName(Second[Len(b)])

\* no page received yet
NoPage == [status_code |-> 0, cards |-> <<>>, has_more |-> FALSE, next_page |-> None]

\* log entries
CatalogEvent(fn, resp) ==
    [ev |-> "catalog", fn |-> fn, status_code |-> resp.status_code, cards |-> resp.cards]
StatsEvent(name, rank, result) ==
    [ev |-> "stats", slug |-> sanitize_card_name(name), rank |-> rank, result |-> result]
SleepEvent == [ev |-> "sleep"]

\* the dict appended at lines 43-47
CommanderRecord(card) ==
    [name |-> card.name, oracle_text |-> card.oracle_text, reason |-> CommanderReason,
     edhrec_rank |-> None, inclusion_percent |-> None]

\* the dict appended at lines 148-154
HighRecord(card, inclusion_percent) ==
    [name |-> card.name, oracle_text |-> card.oracle_text,
     reason |-> HighReason(inclusion_percent),
     edhrec_rank |-> Some(card.edhrec_rank),
     inclusion_percent |-> Some(inclusion_percent)]

(***************************************************************************)
(* sanitize_card_name, statement by statement.                             *)
(***************************************************************************)
idleFetch ==
    /\ url = None /\ page = 0 /\ data = NoPage
    /\ idx = 0 /\ cards = <<>> /\ cards_checked = 0 /\ threshold_percent = 0
idleLists == commander_only = <<>> /\ high_inclusion = <<>>
idleMerge == card_dict = <<>> /\ k = 0 /\ merged_cards = <<>>
idleSan == card_name = <<>> /\ sanitized = <<>>

InitSan ==
    /\ entry = "sanitize_card_name"
    /\ pc = "san_lower"
    /\ card_name \in SeqsUpTo(Alphabet, MaxNameLen)
    /\ sanitized = <<>>
    /\ idleFetch /\ idleLists /\ idleMerge
    /\ output_file = None
    /\ log = <<>>

SanStep(from, to, value) ==
    /\ pc = from
    /\ sanitized' = value
    /\ pc' = to
    /\ UNCHANGED <<entry, fetchVars, commander_only, high_inclusion, mergeVars,
                   output_file, card_name, log>>

SanLower == SanStep("san_lower", "san_remove", Lower(card_name))
SanRemove == SanStep("san_remove", "san_spaces", RemoveDisallowed(sanitized))
SanSpaces == SanStep("san_spaces", "san_hyphens", SubRuns(sanitized, Whitespace))
SanHyphens == SanStep("san_hyphens", "san_strip", SubRuns(sanitized, {"-"}))
SanStrip == SanStep("san_strip", "done", StripHyphens(sanitized))

NextSan == SanLower \/ SanRemove \/ SanSpaces \/ SanHyphens \/ SanStrip

SpecSan == InitSan /\ [][NextSan]_vars

(***************************************************************************)
(* fetch_commander_only_cards (lines 12-57), one action per loop iteration. *)
(***************************************************************************)
InitMain ==
    /\ entry = "main"
    /\ pc = "cmd_loop"
    /\ url = Some(1) /\ page = 1 /\ data = NoPage /\ idx = 0
    /\ cards = <<>> /\ cards_checked = 0 /\ threshold_percent = 0
    /\ idleLists /\ idleMerge /\ idleSan
    /\ output_file = None
    /\ log = <<>>

\* variant: the status check raises instead of breaking
CmdRequestError_Raises ==
    /\ pc = "cmd_loop" /\ url # None
    /\ data' = ErrorPage
    /\ log' = Append(log, CatalogEvent("commander", ErrorPage))
    /\ pc' = "raised"
    /\ UNCHANGED <<entry, url, page, idx, cards, cards_checked, threshold_percent,
                   commander_only, high_inclusion, mergeVars, output_file, sanVars>>

\* lines 32-38: the page request answers with a status other than 200
CmdRequestError ==
    /\ pc = "cmd_loop" /\ url # None
    /\ data' = ErrorPage
    /\ log' = Append(log, CatalogEvent("commander", ErrorPage))
    /\ pc' = "cmd_return"
    /\ UNCHANGED <<entry, url, page, idx, cards, cards_checked, threshold_percent,
                   commander_only, high_inclusion, mergeVars, output_file, sanVars>>

\* lines 32-54: the page request answers 200; every card is appended, then
\* the cursor is followed (with the sleep) or cleared
CmdRequestPage ==
    /\ pc = "cmd_loop" /\ url # None
    /\ \E resp \in CommanderPages(Len(cards), Get(url)) :
        /\ data' = resp
        /\ cards' = cards \o [i \in 1..Len(resp.cards) |-> CommanderRecord(resp.cards[i])]
        /\ IF resp.has_more
           THEN /\ url' = resp.next_page
                /\ page' = page + 1
                /\ log' = log \o <<CatalogEvent("commander", resp), SleepEvent>>
           ELSE /\ url' = None
                /\ page' = page
                /\ log' = Append(log, CatalogEvent("commander", resp))
    /\ pc' = "cmd_loop"
    /\ UNCHANGED <<entry, idx, cards_checked, threshold_percent,
                   commander_only, high_inclusion, mergeVars, output_file, sanVars>>

\* lines 56-57 and main's lines 230-231: the list is returned and
\* fetch_high_inclusion_cards(threshold_percent=3.5) is entered (lines 105-120)
CmdReturn ==
    /\ \/ pc = "cmd_return"
       \/ pc = "cmd_loop" /\ url = None
    /\ commander_only' = cards
    /\ cards' = <<>>
    /\ url' = Some(1) /\ page' = 1 /\ cards_checked' = 0 /\ data' = NoPage /\ idx' = 0
    /\ threshold_percent' = 3500
    /\ pc' = "high_loop"
    /\ UNCHANGED <<entry, high_inclusion, mergeVars, output_file, sanVars, log>>

(***************************************************************************)
(* fetch_high_inclusion_cards (lines 96-173).                              *)
(***************************************************************************)
InitScan ==
    /\ entry = "fetch_high_inclusion_cards"
    /\ pc = "high_loop"
    /\ url = Some(1) /\ page = 1 /\ data = NoPage /\ idx = 0
    /\ cards = <<>> /\ cards_checked = 0
    /\ threshold_percent \in {3500, 7500}
    /\ idleLists /\ idleMerge /\ idleSan
    /\ output_file = None
    /\ log = <<>>

\* lines 122-128: the page request answers with a status other than 200
HighRequestError ==
    /\ pc = "high_loop" /\ url # None
    /\ data' = ErrorPage
    /\ log' = Append(log, CatalogEvent("high", ErrorPage))
    /\ pc' = "high_return"
    /\ UNCHANGED <<entry, url, page, idx, cards, cards_checked, threshold_percent,
                   commander_only, high_inclusion, mergeVars, output_file, sanVars>>

\* lines 122-130: the page request answers 200
HighRequestPage ==
    /\ pc = "high_loop" /\ url # None
    /\ \E resp \in PopularPages(entry, cards_checked, Get(url)) :
        /\ data' = resp
        /\ log' = Append(log, CatalogEvent("high", resp))
    /\ idx' = 1
    /\ pc' = "high_for"
    /\ UNCHANGED <<entry, url, page, cards, cards_checked, threshold_percent,
                   commander_only, high_inclusion, mergeVars, output_file, sanVars>>

\* variant: a strict comparison
AtOrAbove_Strict(percent, threshold) == percent > threshold

\* line 147: inclusion_percent >= threshold_percent
AtOrAbove(percent, threshold) == percent >= threshold

\* the card of the current iteration and its looked-up percentage (line 141)
CurCard == data.cards[idx]
CurInclusion == get_edhrec_inclusion(CurCard.stats)
InFor == pc = "high_for" /\ idx <= Len(data.cards)

\* lines 132-145: no percentage, continue
HighSkip ==
    /\ InFor
    /\ CurInclusion = None
    /\ cards_checked' = cards_checked + 1
    /\ log' = Append(log, StatsEvent(CurCard.name, CurCard.edhrec_rank, CurInclusion))
    /\ idx' = idx + 1
    /\ pc' = "high_for"
    /\ UNCHANGED <<entry, url, page, data, cards, threshold_percent,
                   commander_only, high_inclusion, mergeVars, output_file, sanVars>>

\* lines 132-154 and 162-163: at or above the threshold, append and sleep
HighEmit ==
    /\ InFor
    /\ CurInclusion # None
    /\ AtOrAbove(Get(CurInclusion), threshold_percent)
    /\ cards_checked' = cards_checked + 1
    /\ cards' = Append(cards, HighRecord(CurCard, Get(CurInclusion)))
    /\ log' = log \o <<StatsEvent(CurCard.name, CurCard.edhrec_rank, CurInclusion),
                       SleepEvent>>
    /\ idx' = idx + 1
    /\ pc' = "high_for"
    /\ UNCHANGED <<entry, url, page, data, threshold_percent,
                   commander_only, high_inclusion, mergeVars, output_file, sanVars>>

\* variant: the break without url = None
HighStop_KeepsUrl ==
    /\ InFor
    /\ CurInclusion # None
    /\ ~AtOrAbove(Get(CurInclusion), threshold_percent)
    /\ cards_checked' = cards_checked + 1
    /\ log' = Append(log, StatsEvent(CurCard.name, CurCard.edhrec_rank, CurInclusion))
    /\ pc' = "high_page_end"
    /\ UNCHANGED <<entry, url, page, data, idx, cards, threshold_percent,
                   commander_only, high_inclusion, mergeVars, output_file, sanVars>>

\* lines 132-147 and 155-160: below the threshold, url = None and break
HighStop ==
    /\ InFor
    /\ CurInclusion # None
    /\ ~AtOrAbove(Get(CurInclusion), threshold_percent)
    /\ cards_checked' = cards_checked + 1
    /\ log' = Append(log, StatsEvent(CurCard.name, CurCard.edhrec_rank, CurInclusion))
    /\ url' = None
    /\ pc' = "high_page_end"
    /\ UNCHANGED <<entry, page, data, idx, cards, threshold_percent,
                   commander_only, high_inclusion, mergeVars, output_file, sanVars>>

\* lines 165-170, after the for loop ended or was broken out of
HighPageEnd ==
    /\ \/ pc = "high_page_end"
       \/ pc = "high_for" /\ idx > Len(data.cards)
    /\ IF url # None /\ data.has_more
       THEN /\ url' = data.next_page
            /\ page' = page + 1
            /\ log' = Append(log, SleepEvent)
       ELSE /\ url' = None
            /\ UNCHANGED <<page, log>>
    /\ pc' = "high_loop"
    /\ UNCHANGED <<entry, data, idx, cards, cards_checked, threshold_percent,
                   commander_only, high_inclusion, mergeVars, output_file, sanVars>>

\* lines 172-173: return cards (to main's line 231 in a whole run)
HighReturn ==
    /\ \/ pc = "high_return"
       \/ pc = "high_loop" /\ url = None
    /\ high_inclusion' = cards
    /\ pc' = IF entry = "main" THEN "merge" ELSE "done"
    /\ UNCHANGED <<entry, fetchVars, commander_only, mergeVars, output_file,
                   sanVars, log>>

NextScan ==
    \/ HighRequestError \/ HighRequestPage
    \/ HighSkip \/ HighEmit \/ HighStop
    \/ HighPageEnd \/ HighReturn

SpecScan == InitScan /\ [][NextScan]_vars

(***************************************************************************)
(* merge_card_lists and the dump, statement by statement.                  *)
(***************************************************************************)
\* the two optional fields of a record: both absent or both present
Metrics == {<<None, None>>, <<Some(1), Some(7506)>>}
Reasons == {CommanderReason, HighReason(7506)}

\* the records merge_card_lists is called with
CardRecords ==
    {[name |-> n, oracle_text |-> OracleText, reason |-> r,
      edhrec_rank |-> m[1], inclusion_percent |-> m[2]] :
        <<n, r, m>> \in MergeNames \X Reasons \X Metrics}

InitMerge ==
    /\ entry = "merge_card_lists"
    /\ pc = "merge_first"
    /\ commander_only \in SeqsUpTo(CardRecords, MaxRecords)
    /\ high_inclusion \in SeqsUpTo(CardRecords, MaxRecords - Len(commander_only))
    /\ card_dict = <<>> /\ k = 1 /\ merged_cards = <<>>
    /\ idleFetch /\ idleSan
    /\ output_file = None
    /\ log = <<>>

\* one iteration of the loop of lines 183-193
MergeFirst ==
    /\ pc = "merge_first" /\ k <= Len(commander_only)
    /\ card_dict' = MergeFirstStep(card_dict, commander_only[k])
    /\ k' = k + 1
    /\ UNCHANGED <<entry, pc, fetchVars, commander_only, high_inclusion, merged_cards,
                   output_file, sanVars, log>>

\* the first loop ends, the second starts (line 195)
MergeFirstEnd ==
    /\ pc = "merge_first" /\ k > Len(commander_only)
    /\ k' = 1
    /\ pc' = "merge_second"
    /\ UNCHANGED <<entry, fetchVars, commander_only, high_inclusion, card_dict,
                   merged_cards, output_file, sanVars, log>>

\* one iteration of the loop of lines 195-213
MergeSecond ==
    /\ pc = "merge_second" /\ k <= Len(high_inclusion)
    /\ card_dict' = MergeSecondStep(card_dict, high_inclusion[k])
    /\ k' = k + 1
    /\ UNCHANGED <<entry, pc, fetchVars, commander_only, high_inclusion, merged_cards,
                   output_file, sanVars, log>>

\* lines 215-225: the values are sorted and returned
MergeReturn ==
    /\ pc = "merge_second" /\ k > Len(high_inclusion)
    /\ merged_cards' = SortByName(card_dict)
    /\ pc' = "done"
    /\ UNCHANGED <<entry, fetchVars, commander_only, high_inclusion, card_dict, k,
                   output_file, sanVars, log>>

\* main's line 233: merged_cards = merge_card_lists(commander_only, high_inclusion)
MainMerge ==
    /\ pc = "merge"
    /\ merged_cards' = merge_card_lists(commander_only, high_inclusion)
    /\ pc' = "write"
    /\ UNCHANGED <<entry, fetchVars, commander_only, high_inclusion, card_dict, k,
                   output_file, sanVars, log>>

\* lines 235-239: json.dump(merged_cards, f)
WriteOutput ==
    /\ pc = "write"
    /\ output_file' = Some(merged_cards)
    /\ pc' = "done"
    /\ UNCHANGED <<entry, fetchVars, commander_only, high_inclusion, mergeVars,
                   sanVars, log>>

NextMerge == MergeFirst \/ MergeFirstEnd \/ MergeSecond \/ MergeReturn

SpecMerge == InitMerge /\ [][NextMerge]_vars

\* main (lines 227-242)
Init == InitMain

Next ==
    \/ CmdRequestError \/ CmdRequestPage \/ CmdReturn
    \/ HighRequestError \/ HighRequestPage
    \/ HighSkip \/ HighEmit \/ HighStop
    \/ HighPageEnd \/ HighReturn
    \/ MainMerge
    \/ WriteOutput

Spec == Init /\ [][Next]_vars

(***************************************************************************)
(* Properties.                                                             *)
(***************************************************************************)
IsStats(e) == e.ev = "stats"
IsCatalog(e) == e.ev = "catalog"
IsSleep(e) == e.ev = "sleep"
CountLog(P(_)) == Cardinality({i \in 1..Len(log) : P(log[i])})

\* the cards the catalog served to function fn, over all its pages
ServedBy(fn) ==
    LET F[i \in 0..Len(log)] ==
            IF i = 0 THEN <<>>
            ELSE IF IsCatalog(log[i]) /\ log[i].fn = fn
                 THEN F[i - 1] \o log[i].cards
                 ELSE F[i - 1]
    IN F[Len(log)]

\* the lookup outcome assigned to a catalog card: a percentage or no data
HasPercent(c) == ~c.stats.raises /\ c.stats.status_code = 200 /\ c.stats.label # {}
PercentOf(c) == CHOOSE p \in c.stats.label : TRUE
Below(c, t) == HasPercent(c) /\ PercentOf(c) < t
NotBelow(c, t) == HasPercent(c) /\ PercentOf(c) >= t

\* C1: once a statistics lookup has returned a percentage strictly below the
\* threshold, the scan issues no further statistics lookup and no further
\* catalog page request.
C1_NoRequestAfterBelowThreshold ==
    \A i \in 1..Len(log) :
        (/\ IsStats(log[i])
         /\ log[i].result # None
         /\ \A p \in log[i].result : p < threshold_percent)
        => \A j \in (i + 1)..Len(log) : ~IsStats(log[j]) /\ ~IsCatalog(log[j])

\* the scan returned after stopping at the first card of a page that
\* reports has_more and whose second card is at or above the threshold
C1_Witness ==
    /\ entry = "fetch_high_inclusion_cards" /\ pc = "done"
    /\ data.has_more
    /\ Len(data.cards) = 2
    /\ Below(data.cards[1], threshold_percent)
    /\ NotBelow(data.cards[2], threshold_percent)
    /\ CountLog(IsStats) = 1
    /\ CountLog(IsCatalog) = 1

\* the records the scan is to return for the served cards cs: the cards
\* before the first one below the threshold that have a percentage
FirstBelow(cs, t) ==
    IF \E i \in 1..Len(cs) : Below(cs[i], t)
    THEN CHOOSE i \in 1..Len(cs) :
            Below(cs[i], t) /\ \A j \in 1..(i - 1) : ~Below(cs[j], t)
    ELSE Len(cs) + 1
ExpectedEmitted(cs, t) == SelectSeq(SubSeq(cs, 1, FirstBelow(cs, t) - 1), HasPercent)
MatchesEmitted(recs, cs, t) ==
    LET exp == ExpectedEmitted(cs, t)
    IN /\ Len(recs) = Len(exp)
       /\ \A i \in 1..Len(exp) :
            /\ recs[i].name = exp[i].name
            /\ recs[i].edhrec_rank = {exp[i].edhrec_rank}
            /\ recs[i].inclusion_percent = {PercentOf(exp[i])}

\* C2: when every catalog page was answered with 200, the scan returns
\* exactly, in rank order, the cards that precede the first card below the
\* threshold and have a percentage, each with its name, rank and percentage.
C2_ReturnsPrefixAboveThreshold ==
    (/\ entry = "fetch_high_inclusion_cards" /\ pc = "done"
     /\ \A i \in 1..Len(log) : IsCatalog(log[i]) => log[i].status_code = 200)
    => MatchesEmitted(high_inclusion, ServedBy("high"), threshold_percent)

\* four cards served: no data, exactly the threshold, below, above
C2_Witness ==
    /\ entry = "fetch_high_inclusion_cards" /\ pc = "done"
    /\ \A i \in 1..Len(log) : IsCatalog(log[i]) => log[i].status_code = 200
    /\ LET cs == ServedBy("high")
       IN /\ Len(cs) = 4
          /\ ~HasPercent(cs[1])
          /\ HasPercent(cs[2]) /\ PercentOf(cs[2]) = threshold_percent
          /\ Below(cs[3], threshold_percent)
          /\ NotBelow(cs[4], threshold_percent)
    /\ Len(high_inclusion) = 1
    /\ high_inclusion[1].edhrec_rank = {2}

\* C9: the fixed delay occurs between any two consecutive statistics
\* lookups and between any two consecutive catalog page requests.
C9_DelayBetweenRequests ==
    \A i, j \in 1..Len(log) :
        (/\ i < j
         /\ \/ IsStats(log[i]) /\ IsStats(log[j])
            \/ IsCatalog(log[i]) /\ IsCatalog(log[j]))
        => \E m \in (i + 1)..(j - 1) : IsSleep(log[m])

\* the arguments of merge_card_lists, first list before second list
Inputs == commander_only \o high_inclusion
NamesOf(l) == {l[i].name : i \in 1..Len(l)}
NameSeq(l) == [i \in 1..Len(l) |-> l[i].name]
ReasonSet(r) == {r.reasons[i] : i \in 1..Len(r.reasons)}
Returned == entry = "merge_card_lists" /\ pc = "done"

\* the value of field f of the last record of l named n that supplies it
LastSupplied(l, n, f) ==
    LET sup == {i \in 1..Len(l) : l[i].name = n /\ l[i][f] # None}
    IN IF sup = {} THEN None
       ELSE l[CHOOSE i \in sup : \A j \in sup : i >= j][f]

\* C3: both lists are processed the same way, so for every name the merged
\* rank and inclusion are those of the last input record (first list before
\* second list) that supplies them, and a supplied field is in the output.
C3_LastSupplierWins ==
    Returned =>
        \A i \in 1..Len(merged_cards) :
            /\ merged_cards[i].edhrec_rank =
                   LastSupplied(Inputs, merged_cards[i].name, "edhrec_rank")
            /\ merged_cards[i].inclusion_percent =
                   LastSupplied(Inputs, merged_cards[i].name, "inclusion_percent")

NoDuplicate(l) == \A i, j \in 1..Len(l) : l[i] = l[j] => i = j

\* C4: the reasons list of every merged record, intermediate or returned,
\* holds no string twice.
C4_NoDuplicateReasons ==
    /\ \A i \in 1..Len(card_dict) : NoDuplicate(card_dict[i].reasons)
    /\ \A i \in 1..Len(merged_cards) : NoDuplicate(merged_cards[i].reasons)

\* one name with the same reason three times: twice in the first list and
\* once in the second
C4_Witness ==
    /\ Returned
    /\ Len(commander_only) = 2 /\ Len(high_inclusion) = 1
    /\ \A i \in 1..3 : /\ Inputs[i].name = Inputs[1].name
                       /\ Inputs[i].reason = Inputs[1].reason
    /\ Len(merged_cards) = 1
    /\ merged_cards[1].reasons = <<Inputs[1].reason>>

\* the permutations of 1..n, for the list lengths in use
IndexPermutations ==
    [n \in 0..MaxRecords |->
        {g \in [1..n -> 1..n] : \A i, j \in 1..n : g[i] = g[j] => i = j}]
Reorderings(l) == {[i \in 1..Len(l) |-> l[f[i]]] : f \in IndexPermutations[Len(l)]}

\* C5: the output holds exactly one record per distinct input name, sorted
\* by name ascending; permuting either input or swapping the two inputs
\* leaves the sequence of output names unchanged.
C5_SortedOnePerName ==
    Returned =>
        /\ NamesOf(merged_cards) = NamesOf(Inputs)
        /\ \A i \in 1..(Len(merged_cards) - 1) :
               StrLess(merged_cards[i].name, merged_cards[i + 1].name)
        /\ \A pa \in Reorderings(commander_only), pb \in Reorderings(high_inclusion) :
               NameSeq(merge_card_lists(pa, pb)) = NameSeq(merged_cards)
        /\ NameSeq(merge_card_lists(high_inclusion, commander_only)) = NameSeq(merged_cards)

\* three names given in descending order, across both lists
C5_Witness ==
    /\ Returned
    /\ Len(commander_only) = 2 /\ Len(high_inclusion) = 1
    /\ NameSeq(Inputs) = << <<"a", "B">>, <<"a">>, <<"B">> >>
    /\ NameSeq(merged_cards) = << <<"B">>, <<"a">>, <<"a", "B">> >>

C7_MergeWithEmpty ==
    (/\ Returned
     /\ commander_only = <<>> \/ high_inclusion = <<>>
     /\ \A i, j \in 1..Len(Inputs) : Inputs[i].name = Inputs[j].name => i = j)
    => /\ Len(merged_cards) = Len(Inputs)
       /\ \A i \in 1..Len(Inputs) : \E j \in 1..Len(merged_cards) :
            /\ merged_cards[j].name = Inputs[i].name
            /\ merged_cards[j].oracle_text = Inputs[i].oracle_text
            /\ merged_cards[j].reasons = <<Inputs[i].reason>>
            /\ merged_cards[j].edhrec_rank = Inputs[i].edhrec_rank
            /\ merged_cards[j].inclusion_percent = Inputs[i].inclusion_percent

\* the i-th page request of function fn failed
Failed(fn) ==
    \E i \in 1..Len(log) :
        IsCatalog(log[i]) /\ log[i].fn = fn /\ log[i].status_code # 200

\* the run is at a position of main's sequence and has a step to take there
\* (a card of the page is processed whatever its lookup gives; the call of
\* merge_card_lists has no condition), or is done
Continues ==
    \/ pc = "done"
    \/ pc \in {"cmd_loop", "cmd_return"} /\ ENABLED (CmdRequestError \/ CmdReturn)
    \/ pc \in {"high_loop", "high_return"} /\ ENABLED (HighRequestError \/ HighReturn)
    \/ pc = "high_for" /\ (idx <= Len(data.cards) \/ ENABLED HighPageEnd)
    \/ pc = "high_page_end" /\ ENABLED HighPageEnd
    \/ pc = "merge"
    \/ pc = "write" /\ ENABLED WriteOutput

\* C8: after a catalog page answered with a status other than 200 the
\* function issues no further catalog request and returns exactly the
\* records of the pages received before, and the run goes on to the merge
\* and the dump.
C8_PartialResultsOnError ==
    /\ \A i \in 1..Len(log) :
           (IsCatalog(log[i]) /\ log[i].status_code # 200)
           => \A j \in (i + 1)..Len(log) :
                  ~(IsCatalog(log[j]) /\ log[j].fn = log[i].fn)
    /\ (Failed("commander") /\ pc \notin {"cmd_loop", "cmd_return"})
       => LET cs == ServedBy("commander")
          IN /\ Len(commander_only) = Len(cs)
             /\ \A i \in 1..Len(cs) :
                    /\ commander_only[i].name = cs[i].name
                    /\ commander_only[i].reason = <<"commander_only">>
    /\ (Failed("high") /\ pc \in {"merge", "write", "done"})
       => MatchesEmitted(high_inclusion, ServedBy("high"), threshold_percent)
    /\ (Failed("commander") \/ Failed("high"))
       => /\ Continues
          /\ pc = "done" =>
                /\ output_file = {merged_cards}
                /\ NamesOf(merged_cards) = NamesOf(commander_only) \cup NamesOf(high_inclusion)

\* both searches failed on their second page, after a first page with the
\* same card each, and the file was written with that card and both reasons
C8_Witness ==
    /\ entry = "main" /\ pc = "done"
    /\ CountLog(IsCatalog) = 4
    /\ log[1].status_code = 200 /\ Len(log[1].cards) = 1
    /\ Failed("commander") /\ Failed("high")
    /\ Len(commander_only) = 1 /\ Len(high_inclusion) = 1
    /\ commander_only[1].name = high_inclusion[1].name
    /\ output_file # None
    /\ Len(merged_cards) = 1
    /\ Len(merged_cards[1].reasons) = 2

\* a character that is kept: a letter or a digit
Kept(c) == LowerChar(c) \in LowerAlnum
Separator(c) == c \in Whitespace \cup {"-"}

\* the kept characters of name in lower case, with one hyphen between two
\* neighbours exactly when a whitespace or hyphen lies between them
ExpectedSlug(name) ==
    LET F[i \in 0..Len(name)] ==
            IF i = 0 THEN <<>>
            ELSE IF ~Kept(name[i]) THEN F[i - 1]
            ELSE LET prev == {j \in 1..(i - 1) : Kept(name[j])}
                     last == IF prev = {} THEN 0
                             ELSE CHOOSE j \in prev : \A m \in prev : j >= m
                 IN IF last > 0 /\ \E j \in (last + 1)..(i - 1) : Separator(name[j])
                    THEN F[i - 1] \o <<"-", LowerChar(name[i])>>
                    ELSE Append(F[i - 1], LowerChar(name[i]))
    IN F[Len(name)]

\* C10: the slug is made of lowercase letters, digits and hyphens only, has
\* no leading, trailing or doubled hyphen, joins two kept characters by one
\* hyphen exactly when whitespace or hyphens separated them, and drops
\* punctuation without leaving a hyphen.
C10_SlugShape ==
    (entry = "sanitize_card_name" /\ pc = "done") =>
        /\ \A i \in 1..Len(sanitized) : sanitized[i] \in LowerAlnum \cup {"-"}
        /\ sanitized # <<>> => sanitized[1] # "-" /\ sanitized[Len(sanitized)] # "-"
        /\ \A i \in 1..(Len(sanitized) - 1) :
               ~(sanitized[i] = "-" /\ sanitized[i + 1] = "-")
        /\ sanitized = ExpectedSlug(card_name)

\* "U, r-" gives "u-r": punctuation dropped, the whitespace turned into
\* one hyphen, the trailing hyphen stripped
C10_Witness ==
    /\ entry = "sanitize_card_name" /\ pc = "done"
    /\ card_name = <<"U", ",", " ", "r">> \/ card_name = <<"U", " ", "r", "-">>
    /\ sanitized = <<"u", "-", "r">>

====
